---- MODULE Spec2Model ----
(***************************************************************************)
(* A model of polyadcirc/pyADCIRC/fort15_management.py: the scanner        *)
(* read_recording_data with its record decoders, the rewriter subdomain    *)
(* with _write_record, the geometry filter trim_locations and the field    *)
(* mutators set_ihot and set_write_hot.                                    *)
(*                                                                         *)
(* Text.  A line of a fort.15 document is a record                         *)
(*    vals  the numeric tokens of the text before the first '!'            *)
(*    bang  whether the line holds a '!'                                   *)
(*    toks  the keywords that occur in the text after the '!'              *)
(*    cmt   the identity of the text after the '!' (0: there is none)      *)
(*    nl    whether the text ends with a line break                        *)
(*    sci   whether the numbers are exponent text, d.dddddddd, E, a sign   *)
(*          and two digits; vals then holds, for each number, the digits   *)
(*          of d.dddddddd as a whole number and the exponent, and these    *)
(*          are the tokens the station reader finds in the text            *)
(* The text before the '!' holds numbers only, as the format has it, so a  *)
(* keyword is found in a line exactly when it occurs in its comment, and   *)
(* every line of an input document ends with a line break.                 *)
(*                                                                         *)
(* Numbers.  Day-valued fields (STATIM, RNDAY, TOUTS, TOUTF) are whole     *)
(* numbers of thousandths of a day; DT is in whole seconds; flags, counts, *)
(* strides and station coordinates are whole numbers.  The time object     *)
(* holds statim and rnday in millionths of a day, so that the rewriter's   *)
(* rnday * 0.995 is exact.  The program computes in binary floating point: *)
(* where the rounded result can differ from the exact one (a whole         *)
(* observation quotient of values that have no exact binary form, a point  *)
(* exactly on an ellipse) the model leaves the outcome open between the    *)
(* two, and everywhere else it computes the exact value, which the rounded *)
(* computation reaches.                                                    *)
(***************************************************************************)
EXTENDS Integers, Sequences, FiniteSets, TLC

VARIABLES
    files,      \* the lines of fort.15 and of temp.15 (NoFile: there is none)
    orig,       \* fort.15 as it was when the running mutator was called
    subfile,    \* what subdomain has written to the sub-domain's fort.15
    shape,      \* the sub-domain's shape description file
    data,       \* the data object handed to read_recording_data
    fdata,      \* subdomain's own storage object
    pc,         \* where the running operation is
    cur,        \* index of the line held in `line`; Len + 1 is the empty read
    loc,        \* the operation's local variables dt, statim, rnday
    arg,        \* the running operation's arguments
    err,        \* the error an operation stopped with
    ret,        \* what read_recording_data returned
    calls,      \* operations started so far
    reads,      \* how many times each line of fort.15 was returned by readline
    spins,      \* parity of the empty reads of a skip loop at end of input
    copied,     \* history: <<j, k>> when chunk k of subfile is line j of fort.15
    timeFresh   \* data.time was assigned during the running scan

vars == <<files, orig, subfile, shape, data, fdata, pc, cur, loc, arg, err,
          ret, calls, reads, spins, copied, timeFresh>>

\* a slip: the temporary file is the document itself
TmpNameSlip == "fort.15"

FileName == "fort.15"
TmpName == "temp.15"
NoFile == <<"no file">>
fort15 == files[FileName]

----------------------------------------------------------------------------
(* Bounds of the model. *)

MaxBody == 3
MaxScans == 2
MaxHotLines == 3
MaxCalls == 2
MaxSubBody == 4
NodeNum == 3
MaxLocs == 4

(* Fixed-point scales and program constants. *)

Milli == 1000
RndayFactor == 995
Decimals == 8
SecPerDay == 24 * 60 * 60
Micro == Milli * Milli

----------------------------------------------------------------------------
(* Lines. *)

Ln(v, t, c) == [vals |-> v, bang |-> TRUE, toks |-> t, cmt |-> c, nl |-> TRUE,
                sci |-> FALSE]
Bare(v) == [vals |-> v, bang |-> FALSE, toks |-> {}, cmt |-> 0, nl |-> TRUE,
            sci |-> FALSE]

\* line.find(kw) >= 0
Find(line, kw) == kw \in line.toks

\* fid.readline() at index i: the line, or the empty string at end of input
AtEof(doc, i) == i > Len(doc)

Max(a, b) == IF a >= b THEN a ELSE b
Min(a, b) == IF a <= b THEN a ELSE b
Abs(a) == IF a >= 0 THEN a ELSE 0 - a

\* int(a / b) of an exact quotient: truncation toward zero
TruncDiv(a, b) ==
    IF (a >= 0) = (b > 0) THEN Abs(a) \div Abs(b) ELSE 0 - (Abs(a) \div Abs(b))

----------------------------------------------------------------------------
(* The output-type registry. *)

Keys == {"fort61", "fort62", "fort63", "tinun63", "maxele63", "maxvel63",
         "nodeflag63", "rising63", "elemaxdry63", "fort64", "fort71",
         "fort72", "fort73", "fort74"}

filetype(key) ==
    CASE key = "fort61" -> <<TRUE, 1>>
      [] key = "fort62" -> <<TRUE, 2>>
      [] key = "fort64" -> <<FALSE, 2>>
      [] key = "fort71" -> <<TRUE, 1>>
      [] key = "fort72" -> <<TRUE, 2>>
      [] key = "fort74" -> <<FALSE, 2>>
      [] OTHER -> <<FALSE, 1>>

ExplicitKeys == {k \in Keys : filetype(k)[1]}

----------------------------------------------------------------------------
(* The record decoders. *)

NoTime == {}
MkTime(dt, statim, rnday) == [dt |-> dt, statim |-> statim, rnday |-> rnday]

Sign(a) == IF a > 0 THEN 1 ELSE IF a < 0 THEN -1 ELSE 0

\* a day value, in millionths, that a binary float holds exactly: a whole
\* number of 64ths of a day
Dyadic(u) == (64 * u) % Micro = 0

\* a slip: the output flag is not tested
TotalObsSlip(nout, touts, toutf, nspool, time) ==
    LET s == Max(touts * Milli, time.statim)
        f == Min(toutf * Milli, time.rnday + time.statim)
    IN  IF nspool # 0 /\ time.dt # 0
        THEN {TruncDiv((f - s) * (SecPerDay \div 1600),
                       (Micro \div 1600) * time.dt * nspool)}
        ELSE {0}

\* lines 177-184 and 221-227: the observation counts int(...) can give.
\* The window ends and the quotient are floats.  With window ends that are
\* exact in binary every step of (toutf - touts) * 24 * 60 * 60 / dt / nspool
\* is exact or rounds to the exact quotient's neighbour on the same side of
\* every whole number, so int() gives the truncated exact quotient; so it
\* does when the exact quotient is not whole.  A whole quotient q of inexact
\* ends is rounded to q or to just short of it, and int() gives q or the
\* whole number next to q toward zero.
TotalObs(nout, touts, toutf, nspool, time) ==
    LET a == toutf * Milli
        b == time.rnday + time.statim
        s == Max(touts * Milli, time.statim)
        f == Min(a, b)
        sumExact == Dyadic(time.rnday) /\ Dyadic(time.statim)
        exact == /\ Dyadic(s)
                 /\ IF a < b THEN Dyadic(a)
                    ELSE IF b < a THEN sumExact
                    ELSE Dyadic(a) /\ sumExact
        num == (f - s) * (SecPerDay \div 1600)
        den == (Micro \div 1600) * time.dt * nspool
        q == TruncDiv(num, den)
    IN  IF nout # 0 /\ nspool # 0
        THEN IF exact \/ q = 0 \/ num % Abs(den) # 0
             THEN {q}
             ELSE {q, q - Sign(q)}
        ELSE {0}

\* the count of a set of possible counts that int() gave: the one short of
\* the exact quotient, or the exact one
PickObs(S, short) ==
    CHOOSE v \in S : \A w \in S : IF short THEN Abs(v) <= Abs(w) ELSE Abs(v) >= Abs(w)

RECURSIVE Pow10(_)
Pow10(n) == IF n = 0 THEN 1 ELSE 10 * Pow10(n - 1)

\* float() of the digits d.dddddddd, given as a whole number: the whole
\* number they stand for, or, when they have a fraction, the digits
Fraction(m) ==
    IF m % Pow10(Decimals) = 0 THEN m \div Pow10(Decimals)
    ELSE [mant |-> m, exp |-> 0]

\* lines 193-195: float() of token i of those that
\* re.findall(r"[-*\d\.\d]+", ...) finds in a station line.  Plain text
\* gives its numbers.  Exponent text is cut at the 'E' and at a '+', so
\* each number gives two tokens, d.dddddddd and the exponent.
TokenValue(line, i) ==
    IF line.sci /\ i % 2 = 1 THEN Fraction(line.vals[i]) ELSE line.vals[i]

\* lines 190-195: the station lines, n of them from index p on
RECURSIVE ReadStations(_, _, _)
ReadStations(doc, p, n) ==
    IF n <= 0 THEN [ok |-> TRUE, stations |-> <<>>, nread |-> 0]
    ELSE IF AtEof(doc, p) \/ Len(doc[p].vals) = 0
    THEN [ok |-> FALSE, stations |-> <<>>,
          nread |-> IF AtEof(doc, p) THEN 0 ELSE 1]
    ELSE LET rest == ReadStations(doc, p + 1, n - 1)
             v == doc[p].vals
         IN  [ok |-> rest.ok,
              stations |-> <<[x |-> TokenValue(doc[p], 1),
                              y |-> TokenValue(doc[p], Len(v))]>> \o rest.stations,
              nread |-> rest.nread + 1]

\* the text after the '!' of a line: line.partition('!')[-1]
Comment(line) == [bang |-> line.bang, toks |-> line.toks, cmt |-> line.cmt]
NoDescription == [bang |-> FALSE, toks |-> {}, cmt |-> -1]

Failed(e, n) == [ok |-> FALSE, err |-> e, nread |-> n, stations |-> <<>>,
                 meas_locs |-> 0, total_obs |-> 0,
                 description |-> NoDescription, explicit |-> FALSE]

\* lines 176-195 and 220-238: what a decode reads and computes, before it
\* stores anything.  c is the index of the marker line; short tells whether
\* the rounded observation quotient fell short of a whole exact one.
Decode(doc, c, key, d, short) ==
    LET line == doc[c] IN
    IF Len(line.vals) # 4 THEN Failed("Format", 0)
    ELSE IF d.time = NoTime THEN Failed("MissingTime", 0)
    ELSE LET time == CHOOSE t \in d.time : TRUE
             nout == line.vals[1]
             nspool == line.vals[4]
         IN
         IF nout # 0 /\ nspool # 0 /\ time.dt = 0 THEN Failed("Arith", 0)
         ELSE LET total == PickObs(TotalObs(nout, line.vals[2], line.vals[3],
                                            nspool, time), short)
         IN
         IF ~filetype(key)[1]
         THEN [ok |-> TRUE, err |-> "", nread |-> 0, stations |-> <<>>,
               meas_locs |-> d.node_num, total_obs |-> total,
               description |-> NoDescription, explicit |-> FALSE]
         ELSE IF AtEof(doc, c + 1) THEN Failed("Format", 0)
         ELSE IF Len(doc[c + 1].vals) # 1 THEN Failed("Format", 1)
         ELSE LET n == doc[c + 1].vals[1]
                  st == ReadStations(doc, c + 2, n)
              IN  IF ~st.ok THEN Failed("Index", 1 + st.nread)
                  ELSE [ok |-> TRUE, err |-> "", nread |-> 1 + st.nread,
                        stations |-> st.stations, meas_locs |-> n,
                        total_obs |-> total,
                        description |-> Comment(doc[c + 1]), explicit |-> TRUE]

Put(f, k, v) == (k :> v) @@ f

\* lines 196-199: _read_record stores under its key
StoreRecord(d, key, r) ==
    [d EXCEPT !.stations = IF r.explicit THEN Put(@, key, r.stations) ELSE @,
              !.recording = Put(@, key, <<r.meas_locs, r.total_obs, filetype(key)[2]>>)]

\* a slip: the second key gets the first key's column count
StoreRecord7Slip(d, key1, key2, r) ==
    [d EXCEPT !.stations = IF r.explicit
                           THEN Put(Put(@, key1, r.stations), key2, r.stations)
                           ELSE @,
              !.recording = Put(Put(@, key1, <<r.meas_locs, r.total_obs, filetype(key1)[2]>>),
                                key2, <<r.meas_locs, r.total_obs, filetype(key1)[2]>>)]

\* lines 239-244: _read_record7 stores under both keys
StoreRecord7(d, key1, key2, r) ==
    [d EXCEPT !.stations = IF r.explicit
                           THEN Put(Put(@, key1, r.stations), key2, r.stations)
                           ELSE @,
              !.recording = Put(Put(@, key1, <<r.meas_locs, r.total_obs, filetype(key1)[2]>>),
                                key2, <<r.meas_locs, r.total_obs, filetype(key2)[2]>>)]

\* _read_record(fid, key, line, data)
ReadRecord(doc, c, key, d, short) ==
    LET r == Decode(doc, c, key, d, short)
    IN  [ok |-> r.ok, err |-> r.err, nread |-> r.nread,
         description |-> r.description,
         data |-> IF r.ok THEN StoreRecord(d, key, r) ELSE d]

\* _read_record7(fid, key1, key2, line, data)
ReadRecord7(doc, c, key1, key2, d, short) ==
    LET r == Decode(doc, c, key1, d, short)
    IN  [ok |-> r.ok, err |-> r.err, nread |-> r.nread,
         description |-> r.description,
         data |-> IF r.ok THEN StoreRecord7(d, key1, key2, r) ELSE d]

\* a slip: the decoder's reads do not move the file position
AfterDecodeSlip(c, n) == c + 1

\* the file position after a decoder that read n lines past line c: the
\* index the dispatch loop's next readline returns
AfterDecode(c, n) == c + n + 1

----------------------------------------------------------------------------
(* read_recording_data *)

ScanKeywords == <<"DT", "IHOT", "STATIM", "RNDAY", "DRAMP", "H0", "UNIT  61",
                  "UNIT  62", "NOUTC", "UNIT  71/72", "NOUTGE", "UNIT  64",
                  "NOUTGC", "UNIT  73/74">>

\* the first keyword of ks the line holds: the if/elif chain
RECURSIVE Branch(_, _)
Branch(line, ks) ==
    IF ks = <<>> THEN "else"
    ELSE IF Find(line, Head(ks)) THEN Head(ks) ELSE Branch(line, Tail(ks))

ScanBranch(line) == Branch(line, ScanKeywords)

Unbound == {}
NoLocals == [dt |-> Unbound, statim |-> Unbound, rnday |-> Unbound]
Val(s) == CHOOSE v \in s : TRUE

FreshData == [time |-> NoTime, ihot |-> {}, h0 |-> {}, stations |-> <<>>,
              recording |-> <<>>, node_num |-> NodeNum]

\* one pass of the dispatch loop over line c of doc (lines 111-156)
ScanLine(doc, c, d, l, short) ==
    LET line == doc[c]
        b == ScanBranch(line)
        same == [ok |-> TRUE, err |-> "", data |-> d, loc |-> l, nread |-> 0,
                 fresh |-> FALSE]
        fail(e) == [same EXCEPT !.ok = FALSE, !.err = e]
        rec(r) == [same EXCEPT !.ok = r.ok, !.err = r.err, !.data = r.data,
                               !.nread = r.nread]
    IN  CASE b = "DT" ->
               IF Len(line.vals) # 1 THEN fail("Format")
               ELSE [same EXCEPT !.loc.dt = {line.vals[1]}]
          [] b = "IHOT" ->
               IF Len(line.vals) # 1 THEN fail("Format")
               ELSE [same EXCEPT !.data.ihot = {line.vals[1]}]
          [] b = "STATIM" ->
               IF Len(line.vals) # 1 THEN fail("Format")
               ELSE [same EXCEPT !.loc.statim = {line.vals[1] * Milli}]
          [] b = "RNDAY" ->
               IF Len(line.vals) # 1 THEN fail("Format")
               ELSE [same EXCEPT !.loc.rnday = {line.vals[1] * Milli}]
          [] b = "DRAMP" ->
               IF Unbound \in {l.dt, l.statim, l.rnday} THEN fail("Unbound")
               ELSE [same EXCEPT
                       !.data.time = {MkTime(Val(l.dt), Val(l.statim), Val(l.rnday))},
                       !.fresh = TRUE]
          [] b = "H0" ->
               IF Len(line.vals) = 0 THEN fail("Index")
               ELSE [same EXCEPT !.data.h0 = {line.vals[1]}]
          [] b = "UNIT  61" -> rec(ReadRecord(doc, c, "fort61", d, short))
          [] b = "UNIT  62" -> rec(ReadRecord(doc, c, "fort62", d, short))
          [] b = "UNIT  71/72" -> rec(ReadRecord7(doc, c, "fort71", "fort72", d, short))
          [] b = "NOUTGE" -> rec(ReadRecord(doc, c, "fort63", d, short))
          [] b = "UNIT  64" -> rec(ReadRecord(doc, c, "fort64", d, short))
          [] b = "UNIT  73/74" -> rec(ReadRecord7(doc, c, "fort73", "fort74", d, short))
          [] OTHER -> same

\* readline returned the lines of S once more
IncReads(rd, S) == [i \in DOMAIN rd |-> IF i \in S THEN rd[i] + 1 ELSE rd[i]]

----------------------------------------------------------------------------
(* The documents the scanner is run on: a header, then any lines of the    *)
(* body catalogue.                                                         *)

HeaderFull == <<Ln(<<43200>>, {"DT"}, 1), Ln(<<0>>, {"STATIM"}, 2),
                Ln(<<2000>>, {"RNDAY"}, 3), Ln(<<1000>>, {"DRAMP"}, 4)>>
HeaderAlt == <<Ln(<<1>>, {"IHOT"}, 5), Ln(<<21600>>, {"DT"}, 1),
               Ln(<<500>>, {"STATIM"}, 2), Ln(<<1000>>, {"RNDAY"}, 3),
               Ln(<<1000, 1000>>, {"DRAMP"}, 4), Ln(<<50>>, {"H0"}, 6)>>
ScanHeaders == {<<>>, HeaderFull, HeaderAlt}

M61 == Ln(<<1, 0, 2000, 1>>, {"NOUTE", "UNIT  61"}, 10)
M61out == Ln(<<1, 5000, 6000, 1>>, {"NOUTE", "UNIT  61"}, 11)
M7172 == Ln(<<1, 0, 1000, 2>>, {"UNIT  71/72"}, 12)
M63 == Ln(<<1, 0, 2000, 1>>, {"NOUTGE"}, 13)
Cnt1 == Ln(<<1>>, {}, 20)
Cnt2 == Ln(<<2>>, {}, 21)
CntNeg == Ln(<<-1>>, {}, 22)
StA == Bare(<<3, 4>>)

ScanCatalogue == {M61, M61out, M7172, M63, Cnt1, Cnt2, CntNeg, StA}

SeqsUpTo(S, n) == UNION {[1..k -> S] : k \in 0..n}

ScanDocs == {h \o b : h \in ScanHeaders, b \in SeqsUpTo(ScanCatalogue, MaxBody)}

----------------------------------------------------------------------------
(* The operations of read_recording_data. *)

NoShape == [xb |-> 0, yb |-> 0, r |-> 0]
FreshFdata == [stations |-> <<>>, recording |-> <<>>, time |-> NoTime]

Idle == pc \in {"idle", "done", "error"}

\* a slip: the stores are not emptied
ResetStoresSlip(d) == d

\* lines 105-106: data.stations = {}; data.recording = {}
ResetStores(d) == [d EXCEPT !.stations = <<>>, !.recording = <<>>]

\* lines 100-106: read_recording_data(data, path) resets the stores of data
ScanEnter ==
    /\ Idle
    /\ calls < MaxScans
    /\ data' = ResetStores(data)
    /\ pc' = "enter"
    /\ files' = [files EXCEPT ![FileName] = <<>>]
    /\ reads' = <<>>
    /\ cur' = 1
    /\ loc' = NoLocals
    /\ err' = ""
    /\ ret' = {}
    /\ calls' = calls + 1
    /\ timeFresh' = FALSE
    /\ UNCHANGED <<orig, subfile, shape, fdata, arg, spins, copied>>

\* lines 108-109: open the fort.15 that path names, one of docs, and read
\* its first line
ScanOpenFrom(docs) ==
    /\ pc = "enter"
    /\ \E doc \in docs :
         /\ files' = [files EXCEPT ![FileName] = doc]
         /\ reads' = [i \in 1..Len(doc) |-> IF i = 1 THEN 1 ELSE 0]
    /\ pc' = "scan"
    /\ UNCHANGED <<orig, subfile, shape, data, fdata, cur, loc, arg, err, ret,
                   calls, spins, copied, timeFresh>>

\* lines 110-157: one pass of the dispatch loop
ScanStep ==
    /\ pc = "scan"
    /\ ~AtEof(fort15, cur)
    /\ \E short \in BOOLEAN :
       LET r == ScanLine(fort15, cur, data, loc, short)
           nxt == AfterDecode(cur, r.nread)
           rd == IncReads(reads, (cur + 1)..(cur + r.nread))
       IN  /\ data' = r.data
           /\ loc' = r.loc
           /\ timeFresh' = (timeFresh \/ r.fresh)
           /\ IF r.ok
              THEN /\ pc' = "scan"
                   /\ err' = ""
                   /\ cur' = nxt
                   /\ reads' = IncReads(rd, {nxt})
              ELSE /\ pc' = "error"
                   /\ err' = r.err
                   /\ cur' = cur
                   /\ reads' = rd
    /\ UNCHANGED <<files, orig, subfile, shape, fdata, arg, ret, calls, spins, copied>>

\* line 158: return data.time; a data object that never got one has none
ScanReturn ==
    /\ pc = "scan"
    /\ AtEof(fort15, cur)
    /\ \/ pc' = "done" /\ ret' = data.time /\ err' = ""
       \/ data.time = NoTime /\ pc' = "error" /\ ret' = {} /\ err' = "MissingTime"
    /\ UNCHANGED <<files, orig, subfile, shape, data, fdata, cur, loc, arg,
                   calls, reads, spins, copied, timeFresh>>

\* lines 100-109 with path the directory of the fort.15 at hand: the stores
\* are reset, the file is opened and its first line read
ScanCurrent ==
    /\ Idle
    /\ calls < MaxCalls + 1
    /\ data' = ResetStores(data)
    /\ pc' = "scan"
    /\ reads' = [i \in 1..Len(fort15) |-> IF i = 1 THEN 1 ELSE 0]
    /\ cur' = 1
    /\ loc' = NoLocals
    /\ err' = ""
    /\ ret' = {}
    /\ calls' = calls + 1
    /\ timeFresh' = FALSE
    /\ UNCHANGED <<files, orig, subfile, shape, fdata, arg, spins, copied>>

\* nothing has run yet: fort.15 holds doc, the sub-domain's shape file sh
Start(doc, sh) ==
    /\ files = (FileName :> doc) @@ (TmpName :> NoFile)
    /\ orig = <<>>
    /\ subfile = <<>>
    /\ shape = sh
    /\ data = FreshData
    /\ fdata = FreshFdata
    /\ pc = "idle"
    /\ cur = 1
    /\ loc = NoLocals
    /\ arg = <<>>
    /\ err = ""
    /\ ret = {}
    /\ calls = 0
    /\ reads = <<>>
    /\ spins = 0
    /\ copied = <<>>
    /\ timeFresh = FALSE

InitScan == Start(<<>>, NoShape)

ScanOpen == ScanOpenFrom(ScanDocs)

NextScan == ScanEnter \/ ScanOpen \/ ScanStep \/ ScanReturn

SpecScan == InitScan /\ [][NextScan]_vars

----------------------------------------------------------------------------
(* set_ihot and set_write_hot *)

\* a slip: the text after the '!' is not written back
FormattedSlip(vals, line) ==
    [vals |-> vals, bang |-> TRUE, toks |-> {}, cmt |-> 0, nl |-> line.bang,
     sci |-> FALSE]

\* lines 454 and 481-483: the values, then '!', then the text after the
\* line's '!'
Formatted(vals, line) ==
    [vals |-> vals, bang |-> TRUE, toks |-> line.toks, cmt |-> line.cmt,
     nl |-> line.bang, sci |-> FALSE]

HotKeyword(a) == IF a.op = "set_ihot" THEN "IHOT" ELSE "NHSTAR"

\* lines 452-456 and 479-485: what the loop writes for a line
HotLine(line, a) ==
    IF Find(line, HotKeyword(a)) THEN Formatted(a.vals, line) ELSE line

\* a slip: the temporary file is not renamed
RenameSlip(fs, from, to) == fs

\* os.rename(from, to)
Rename(fs, from, to) ==
    IF from = to THEN fs ELSE [fs EXCEPT ![to] = fs[from], ![from] = NoFile]

IhotLine == Ln(<<0>>, {"IHOT"}, 5)
NhstarLine == Ln(<<0, 100>>, {"NHSTAR"}, 7)
HotNote == Ln(<<1>>, {"IHOT", "NHSTAR"}, 9)
Plain == Ln(<<7>>, {}, 8)

HotCatalogue == {IhotLine, NhstarLine, HotNote, Plain, StA}
HotDocs == SeqsUpTo(HotCatalogue, MaxHotLines)

HotArgs == {[op |-> "set_ihot", vals |-> <<17>>],
            [op |-> "set_ihot", vals |-> <<67>>],
            [op |-> "set_write_hot", vals |-> <<1, 50>>]}

\* lines 443-450 and 470-477: open fort.15 to read and temp.15 to write,
\* and read the first line
HotOpenFrom(args) ==
    /\ Idle
    /\ calls < MaxCalls
    /\ \E a \in args : arg' = a
    /\ orig' = fort15
    /\ files' = [files EXCEPT ![TmpName] = <<>>]
    /\ pc' = "hot"
    /\ cur' = 1
    /\ err' = ""
    /\ calls' = calls + 1
    /\ UNCHANGED <<subfile, shape, data, fdata, loc, ret, reads, spins, copied, timeFresh>>

\* lines 451-457 and 478-486: one pass of the loop
HotStep ==
    /\ pc = "hot"
    /\ ~AtEof(fort15, cur)
    /\ files' = [files EXCEPT ![TmpName] = Append(@, HotLine(fort15[cur], arg))]
    /\ cur' = cur + 1
    /\ UNCHANGED <<orig, subfile, shape, data, fdata, pc, loc, arg, err, ret,
                   calls, reads, spins, copied, timeFresh>>

\* lines 459 and 488: the files are closed and temp.15 renamed to fort.15
HotRename ==
    /\ pc = "hot"
    /\ AtEof(fort15, cur)
    /\ files' = Rename(files, TmpName, FileName)
    /\ pc' = "done"
    /\ UNCHANGED <<orig, subfile, shape, data, fdata, cur, loc, arg, err, ret,
                   calls, reads, spins, copied, timeFresh>>

\* an interrupt or an input/output error at any step: the with block closes
\* both files and the mutator ends
HotInterrupt ==
    /\ pc = "hot"
    /\ pc' = "error"
    /\ err' = "Interrupt"
    /\ UNCHANGED <<files, orig, subfile, shape, data, fdata, cur, loc, arg, ret,
                   calls, reads, spins, copied, timeFresh>>

InitHot == \E doc \in HotDocs : Start(doc, NoShape)

HotOpen == HotOpenFrom(HotArgs)

NextHot == HotOpen \/ HotStep \/ HotRename \/ HotInterrupt

SpecHot == InitHot /\ [][NextHot]_vars

\* calls of set_ihot that run to their end, and scans of the fort.15 they
\* leave
IhotArgs == {a \in HotArgs : a.op = "set_ihot"}

HotOpenIhot == HotOpenFrom(IhotArgs)

NextHotScan ==
    HotOpenIhot \/ HotStep \/ HotRename \/ ScanCurrent \/ ScanStep \/ ScanReturn

SpecHotScan == InitHot /\ [][NextHotScan]_vars

----------------------------------------------------------------------------
(* trim_locations, trim_locations_circle and trim_locations_ellipse *)

\* a slip: the boundary of the shrunk circle is left out
InCircleSlip(sh, l) ==
    25 * 25 * ((sh.xb - l.x) * (sh.xb - l.x) + (sh.yb - l.y) * (sh.yb - l.y))
        < (25 * sh.r - sh.r) * (25 * sh.r - sh.r)

\* line 364: (xb-x)^2 + (yb-y)^2 <= (r - r/25)^2, both sides times 25^2
InCircle(sh, l) ==
    25 * 25 * ((sh.xb - l.x) * (sh.xb - l.x) + (sh.yb - l.y) * (sh.yb - l.y))
        <= (25 * sh.r - sh.r) * (25 * sh.r - sh.r)

\* lines 362-366
TrimLocationsCircle(sh, locs) == SelectSeq(locs, LAMBDA l : InCircle(sh, l))

Sq(a) == a * a

\* lines 393-412 in exact arithmetic.  With dx = p1x - p2x, dy = p1y - p2y
\* and d^2 = dx^2 + dy^2, the rotation by -atan(dy/dx) has cos = |dx|/d and
\* sin = -sign(dx)*dy/d, so x^2 = (dx*X + dy*Y)^2/d^2 and
\* y^2 = (dx*Y - dy*X)^2/d^2; xaxis^2 = (d^2 + w^2)/4 and yaxis^2 = w^2/4.
\* x^2/xaxis^2 + y^2/yaxis^2 - 1 is taken times d^2*(d^2 + w^2)*w^2, with
\* X and Y doubled to keep the centre whole: negative inside the ellipse,
\* 0 on it, positive outside.
EllipseSide(sh, l) ==
    LET dx == sh.p1x - sh.p2x
        dy == sh.p1y - sh.p2y
        d2 == Sq(dx) + Sq(dy)
        X2 == 2 * l.x - (sh.p1x + sh.p2x)
        Y2 == 2 * l.y - (sh.p1y + sh.p2y)
    IN  Sq(dx * X2 + dy * Y2) * Sq(sh.w) + Sq(dx * Y2 - dy * X2) * (d2 + Sq(sh.w))
            - d2 * (d2 + Sq(sh.w)) * Sq(sh.w)

\* a point on an axis of an ellipse whose two points have the same y: there
\* theta is 0, sin 0 and cos 1, one term of line 412 is 0 and the other is
\* the quotient of a float by itself
OnLevelAxis(sh, l) ==
    /\ sh.p1y = sh.p2y
    /\ \/ 2 * l.x = sh.p1x + sh.p2x
       \/ 2 * l.y = sh.p1y + sh.p2y

\* the locations of locs for which the floats of lines 395-412 decide the
\* test of line 412: those on the ellipse, where the exact sum is 1 and the
\* rounded one is 1 or next to 1 on either side.  The sum of a point on a
\* level axis is exactly 1.
EdgePoints(sh, locs) ==
    {locs[i] : i \in {j \in 1..Len(locs) :
                        EllipseSide(sh, locs[j]) = 0 /\ ~OnLevelAxis(sh, locs[j])}}

\* line 412: below is the set of the locations on the ellipse whose rounded
\* sum is below 1
InEllipse(sh, l, below) ==
    \/ EllipseSide(sh, l) < 0
    \/ EllipseSide(sh, l) = 0 /\ l \in below

\* lines 380-414: the division of line 397 fails when the two points have
\* the same x, the divisions of line 412 when an axis is 0
TrimLocationsEllipse(sh, locs, below) ==
    IF sh.p1x = sh.p2x \/ (sh.w = 0 /\ locs # <<>>)
    THEN [err |-> "ZeroDivision", ret |-> {}]
    ELSE [err |-> "", ret |-> {SelectSeq(locs, LAMBDA l : InEllipse(sh, l, below))}]

\* lines 340-343: any other flag falls off the end and returns None
TrimLocations(flag, sh, locs, below) ==
    IF flag = 0 THEN TrimLocationsEllipse(sh, locs, below)
    ELSE IF flag = 1 THEN [err |-> "", ret |-> {TrimLocationsCircle(sh, locs)}]
    ELSE [err |-> "", ret |-> {}]

Pt(x, y) == [x |-> x, y |-> y]

\* shape.c14 and shape.e14 of a sub-domain directory
ShapeFiles(c, e) ==
    [xb |-> c[1], yb |-> c[2], r |-> c[3],
     p1x |-> e[1], p1y |-> e[2], p2x |-> e[3], p2y |-> e[4], w |-> e[5]]

TrimCircles == {<<0, 0, 25>>, <<0, 0, 50>>}
TrimEllipses == {<<-3, 0, 3, 0, 8>>, <<0, -3, 0, 3, 8>>, <<-3, -4, 3, 4, 8>>,
                 <<-4, -3, 0, 1, 2>>}
TrimShapes == {ShapeFiles(c, e) : c \in TrimCircles, e \in TrimEllipses}
TrimPoints == {Pt(0, 0), Pt(24, 0), Pt(25, 0), Pt(48, 0), Pt(50, 0), Pt(5, 0),
               Pt(0, 4)}
TrimFlags == {0, 1, 2}

\* trim_locations(flag, subdomain_path, locs)
TrimCall ==
    /\ pc = "idle"
    /\ \E flag \in TrimFlags : \E locs \in SeqsUpTo(TrimPoints, MaxLocs) :
       \E below \in SUBSET EdgePoints(shape, locs) :
         LET r == TrimLocations(flag, shape, locs, below)
         IN  /\ arg' = [op |-> "trim_locations", flag |-> flag, locs |-> locs]
             /\ ret' = r.ret
             /\ err' = r.err
             /\ pc' = IF r.err = "" THEN "done" ELSE "error"
    /\ calls' = calls + 1
    /\ UNCHANGED <<files, orig, subfile, shape, data, fdata, cur, loc, reads,
                   spins, copied, timeFresh>>

InitTrim == \E sh \in TrimShapes : Start(<<>>, sh)

NextTrim == TrimCall

SpecTrim == InitTrim /\ [][NextTrim]_vars

----------------------------------------------------------------------------
(* subdomain and _write_record *)

SubKeywords == <<"DT", "STATIM", "RNDAY", "DRAMP", "NBFR", "NFFR", "UNIT 62",
                 "NOUTC", "UNIT 71/72">>

SubBranch(line) == Branch(line, SubKeywords)

\* a slip: the skip loop reads a line before it tests one
FirstWithSlip(doc, from, kw) ==
    LET S == {j \in (from + 1)..Len(doc) : Find(doc[j], kw)}
    IN  IF S = {} THEN 0 ELSE CHOOSE j \in S : \A k \in S : j <= k

\* lines 297-298 and 301-302: the skip loop, `while not line.find(kw) >= 0:
\* line = readline()`, entered holding line `from`: the index of the line it
\* leaves with, 0 when no line from there on holds kw (it never leaves)
FirstWith(doc, from, kw) ==
    LET S == {j \in from..Len(doc) : Find(doc[j], kw)}
    IN  IF S = {} THEN 0 ELSE CHOOSE j \in S : \A k \in S : j <= k

\* a slip: the line is written after it was parted at the '!'
CopySlip(doc, j) ==
    [text |-> [doc[j] EXCEPT !.bang = FALSE, !.toks = {}, !.cmt = 0], from |-> j]

\* fid_write.write(line) with line j of the input as read
Copy(doc, j) == [text |-> doc[j], from |-> j]

\* a write of text put together by format
Made(t) == [text |-> t, from |-> 0]

\* the number of digits of a whole number a > 0
RECURSIVE Digits(_)
Digits(a) == IF a < 10 THEN 1 ELSE 1 + Digits(a \div 10)

\* a tenth of a >= 0, rounded to the nearest whole number, a half to the
\* even one
RoundTenth(a) ==
    LET q == a \div 10
        r == a % 10
    IN  IF r > 5 \/ (r = 5 /\ q % 2 = 1) THEN q + 1 ELSE q

\* '{:9.8E}' of a whole number v: the digits d.dddddddd of its 9
\* significant digits as a whole number, and the exponent.  A number of
\* more digits is rounded to 9.
Sci(v) ==
    IF v = 0 THEN <<0, 0>>
    ELSE LET n == Digits(Abs(v))
             m == IF n <= Decimals + 1 THEN Abs(v) * Pow10(Decimals + 1 - n)
                  ELSE RoundTenth(Abs(v))
         IN  IF m = Pow10(Decimals + 1) THEN <<Sign(v) * Pow10(Decimals), n>>
             ELSE <<Sign(v) * m, n - 1>>

\* line 433: '{:9.8E} {:9.8E}\n'
StationText(l) ==
    [vals |-> Sci(l.x) \o Sci(l.y), bang |-> FALSE, toks |-> {}, cmt |-> 0,
     nl |-> TRUE, sci |-> TRUE]

\* lines 430-433: _write_record(fid, key, description, data)
WriteRecord(key, description, d) ==
    LET st == d.stations[key]
    IN  <<Made([vals |-> <<Len(st)>>, bang |-> TRUE, toks |-> description.toks,
                cmt |-> description.cmt, nl |-> description.bang,
                sci |-> FALSE])>>
        \o [i \in 1..Len(st) |-> Made(StationText(st[i]))]

\* a slip: the digits after the third are cut off
Render3Slip(u) == {u \div Milli}

\* '{:<6.3f}' of u millionths, in thousandths: the nearest one; which one
\* of two equally near the floating-point product falls to is left open
Render3(u) ==
    LET q == u \div Milli
        m == u % Milli
    IN  IF 2 * m < Milli THEN {q}
        ELSE IF 2 * m > Milli THEN {q + 1} ELSE {q, q + 1}

\* one pass of subdomain's loop over line c of doc (lines 275-324); rv is
\* the RNDAY value as rendered
SubLine(doc, c, d, l, rv, short) ==
    LET line == doc[c]
        b == SubBranch(line)
        same == [ok |-> TRUE, err |-> "", spin |-> FALSE, out |-> <<>>,
                 data |-> d, loc |-> l, nxt |-> c + 1]
        fail(e, o) == [same EXCEPT !.ok = FALSE, !.err = e, !.out = o]
        never(o) == [same EXCEPT !.ok = FALSE, !.spin = TRUE, !.out = o,
                                 !.nxt = Len(doc) + 1]
        block(j, key, r) ==
            IF r.ok
            THEN [same EXCEPT !.out = <<Copy(doc, j)>> \o WriteRecord(key, r.description, r.data),
                              !.data = r.data,
                              !.nxt = AfterDecode(j, r.nread)]
            ELSE fail(r.err, <<Copy(doc, j)>>)
    IN  CASE b = "DT" ->
               IF Len(line.vals) # 1 THEN fail("Format", <<Copy(doc, c)>>)
               ELSE [same EXCEPT !.out = <<Copy(doc, c)>>, !.loc.dt = {line.vals[1]}]
          [] b = "STATIM" ->
               IF Len(line.vals) # 1 THEN fail("Format", <<Copy(doc, c)>>)
               ELSE [same EXCEPT !.out = <<Copy(doc, c)>>,
                                 !.loc.statim = {line.vals[1] * Milli}]
          [] b = "RNDAY" ->
               IF Len(line.vals) # 1 THEN fail("Format", <<>>)
               ELSE [same EXCEPT !.out = <<Made(Formatted(<<rv>>, line))>>,
                                 !.loc.rnday = {line.vals[1] * RndayFactor}]
          [] b = "DRAMP" ->
               IF Unbound \in {l.dt, l.statim, l.rnday}
               THEN fail("Unbound", <<Copy(doc, c)>>)
               ELSE [same EXCEPT
                       !.out = <<Copy(doc, c)>>,
                       !.data.time = {MkTime(Val(l.dt), Val(l.statim), Val(l.rnday))}]
          [] b = "NBFR" ->
               LET j == FirstWith(doc, c + 1, "ANGINN")
                   zero == Made(Formatted(<<0>>, line))
               IN  IF j = 0 THEN never(<<zero>>)
                   ELSE [same EXCEPT !.out = <<zero, Copy(doc, j)>>, !.nxt = j + 1]
          [] b = "NFFR" ->
               LET j == FirstWith(doc, c, "NOUTE")
               IN  IF j = 0 THEN never(<<>>)
                   ELSE block(j, "fort61", ReadRecord(doc, j, "fort61", d, short))
          [] b = "UNIT 62" -> block(c, "fort62", ReadRecord(doc, c, "fort62", d, short))
          [] b = "UNIT 71/72" ->
               block(c, "fort71", ReadRecord7(doc, c, "fort71", "fort72", d, short))
          [] OTHER -> [same EXCEPT !.out = <<Copy(doc, c)>>]

\* the RNDAY value subdomain renders for line c, when it is the RNDAY line
Rendered(doc, c) ==
    IF SubBranch(doc[c]) = "RNDAY" /\ Len(doc[c].vals) = 1
    THEN Render3(doc[c].vals[1] * RndayFactor) ELSE {0}

Nbfr == Ln(<<2>>, {"NBFR"}, 40)
Anginn == Ln(<<110>>, {"ANGINN"}, 41)
Nffr == Ln(<<1>>, {"NFFR"}, 42)
M62s == Ln(<<1, 0, 2000, 1>>, {"UNIT 62"}, 43)
M7172s == Ln(<<1, 0, 1000, 2>>, {"UNIT 71/72"}, 44)
StOut == Bare(<<300, 400>>)
BareZero == Bare(<<0>>)

SubCatalogue == {Nbfr, Anginn, Nffr, M61, M62s, M7172s, Cnt1, StOut, BareZero}
SubHeaders == {<<>>, HeaderFull}
SubDocs == {h \o b : h \in SubHeaders, b \in SeqsUpTo(SubCatalogue, MaxSubBody)}

\* shape.c14 of the sub-domain: centre and radius
Circle == [xb |-> 0, yb |-> 0, r |-> 25]

\* lines 262-273: a new storage object, both files opened, the first line
\* read; p is where the caller is
SubOpenAt(p) ==
    /\ pc = p
    /\ fdata' = FreshFdata
    /\ subfile' = <<>>
    /\ copied' = <<>>
    /\ pc' = "sub"
    /\ cur' = 1
    /\ loc' = NoLocals
    /\ err' = ""
    /\ calls' = calls + 1
    /\ UNCHANGED <<files, orig, shape, data, arg, ret, reads, spins, timeFresh>>

\* lines 274-325: one pass of the loop
SubStep ==
    /\ pc = "sub"
    /\ ~AtEof(fort15, cur)
    /\ \E rv \in Rendered(fort15, cur) : \E short \in BOOLEAN :
         LET r == SubLine(fort15, cur, fdata, loc, rv, short)
             n == Len(subfile)
         IN  /\ subfile' = subfile \o [i \in 1..Len(r.out) |-> r.out[i].text]
             /\ copied' = copied \o
                    SelectSeq([i \in 1..Len(r.out) |-> <<r.out[i].from, n + i>>],
                              LAMBDA e : e[1] # 0)
             /\ fdata' = r.data
             /\ loc' = r.loc
             /\ cur' = IF r.ok \/ r.spin THEN r.nxt ELSE cur
             /\ pc' = IF r.ok THEN "sub" ELSE IF r.spin THEN "spin" ELSE "error"
             /\ err' = r.err
    /\ UNCHANGED <<files, orig, shape, data, arg, ret, calls, reads, spins, timeFresh>>

\* lines 297-298 and 301-302 at end of input: readline returns the empty
\* string, which holds no marker, and the loop reads again
SubSpin ==
    /\ pc = "spin"
    /\ spins' = 1 - spins
    /\ UNCHANGED <<files, orig, subfile, shape, data, fdata, pc, cur, loc, arg,
                   err, ret, calls, reads, copied, timeFresh>>

\* line 274: the empty read ends the loop; the files are closed
SubReturn ==
    /\ pc = "sub"
    /\ AtEof(fort15, cur)
    /\ pc' = "done"
    /\ UNCHANGED <<files, orig, subfile, shape, data, fdata, cur, loc, arg, err,
                   ret, calls, reads, spins, copied, timeFresh>>

InitSub == \E doc \in SubDocs : Start(doc, Circle)

SubOpen == SubOpenAt("idle")

NextSub == SubOpen \/ SubStep \/ SubSpin \/ SubReturn

SpecSub == InitSub /\ [][NextSub]_vars

\* subdomain on documents with several RNDAY values and with skip loops
\* that do and do not find their marker; a step that can be taken is taken
HeaderWith(rnday) == <<Ln(<<43200>>, {"DT"}, 1), Ln(<<0>>, {"STATIM"}, 2),
                       Ln(<<rnday>>, {"RNDAY"}, 3), Ln(<<1000>>, {"DRAMP"}, 4)>>
RndayValues == {2000, 10000, 1001, 500}
FairSubCatalogue == {Nbfr, Anginn, Nffr, M61, BareZero}
FairSubDocs == {HeaderWith(v) \o b :
                  v \in RndayValues, b \in SeqsUpTo(FairSubCatalogue, MaxBody)}

InitSubFair == \E doc \in FairSubDocs : Start(doc, Circle)

SpecSubFair == InitSubFair /\ [][NextSub]_vars /\ WF_vars(NextSub)

\* read_recording_data and then subdomain on the same fort.15, whose
\* markers are spelt as the one and as the other tests for them
M62 == Ln(<<1, 0, 2000, 1>>, {"UNIT  62"}, 16)
\* a station whose x has more digits than line 433 writes
StFar == Bare(<<1234567891, 4>>)

BothCatalogue == {M61, M62, M62s, M7172, M7172s, Nffr, Cnt1, StA, StFar}
BothDocs == {h \o b : h \in SubHeaders, b \in SeqsUpTo(BothCatalogue, MaxBody)}

ScanCurrentFirst == calls = 0 /\ ScanCurrent
SubOpenAfterScan == calls = 1 /\ SubOpenAt("done")

InitBoth == \E doc \in BothDocs : Start(doc, Circle)

NextBoth ==
    \/ ScanCurrentFirst \/ ScanStep \/ ScanReturn
    \/ SubOpenAfterScan \/ SubStep \/ SubSpin \/ SubReturn

SpecBoth == InitBoth /\ [][NextBoth]_vars

\* one call of read_recording_data on a document of complete and of cut
\* short blocks; a step that can be taken is taken
FairCatalogue == {M61, M63, Cnt1, Cnt2, StA}
FairDocs == {h \o b : h \in ScanHeaders, b \in SeqsUpTo(FairCatalogue, MaxBody)}

ScanEnterOnce == calls = 0 /\ ScanEnter
ScanOpenFair == ScanOpenFrom(FairDocs)

NextScanOnce == ScanEnterOnce \/ ScanOpenFair \/ ScanStep \/ ScanReturn

SpecScanFair == InitScan /\ [][NextScanOnce]_vars /\ WF_vars(NextScanOnce)

\* one call of read_recording_data on documents whose markers have the
\* output flag or the stride at 0, whose time step is 0, that hold a
\* second DRAMP line after a second DT line, or whose window of 0.6 days,
\* which no float holds exactly, is a whole number of time steps
HeaderStill == <<Ln(<<0>>, {"DT"}, 1), Ln(<<0>>, {"STATIM"}, 2),
                 Ln(<<2000>>, {"RNDAY"}, 3), Ln(<<1000>>, {"DRAMP"}, 4)>>
HeaderTwice == HeaderFull \o <<Ln(<<21600>>, {"DT"}, 1), Ln(<<1000>>, {"DRAMP"}, 4)>>
HeaderFine == <<Ln(<<17280>>, {"DT"}, 1), Ln(<<0>>, {"STATIM"}, 2),
                Ln(<<2000>>, {"RNDAY"}, 3), Ln(<<1000>>, {"DRAMP"}, 4)>>
DecodeHeaders == {<<>>, HeaderFull, HeaderStill, HeaderTwice, HeaderFine}

M61off == Ln(<<0, 0, 2000, 1>>, {"NOUTE", "UNIT  61"}, 14)
M7172still == Ln(<<1, 0, 1000, 0>>, {"UNIT  71/72"}, 15)

M63part == Ln(<<1, 0, 600, 1>>, {"NOUTGE"}, 17)

DecodeCatalogue == {M61, M61off, M7172still, M63, M63part, Cnt1, StA}
DecodeDocs == {h \o b : h \in DecodeHeaders, b \in SeqsUpTo(DecodeCatalogue, MaxBody)}

ScanOpenDecode == ScanOpenFrom(DecodeDocs)

NextDecode == ScanEnterOnce \/ ScanOpenDecode \/ ScanStep \/ ScanReturn

SpecDecode == InitScan /\ [][NextDecode]_vars

----------------------------------------------------------------------------
(* Claims about the scanner. *)

ScanMarkers == {"UNIT  61", "UNIT  62", "UNIT  71/72", "NOUTGE", "UNIT  64",
                "UNIT  73/74"}

Recorded(d, key) == key \in DOMAIN d.recording
Stationed(d, key) == key \in DOMAIN d.stations

\* C4: for every explicit-station key, a populated recording[key] has a
\* station count equal to the length of stations[key], in every state a
\* sequence of scans reaches.
C4_StationCountIsLength ==
    \A key \in ExplicitKeys :
        Recorded(data, key) =>
            /\ Stationed(data, key)
            /\ data.recording[key][1] = Len(data.stations[key])

\* C5: every stored observation count is >= 0.
C5_TotalObsNonNegative ==
    \A key \in DOMAIN data.recording : data.recording[key][2] >= 0

\* C6: a well-formed marker line reached in a scan whose document has not
\* yet set the time parameters makes the scan fail with the missing-time
\* error.
C6_MarkerBeforeTimeFails ==
    [][(/\ pc = "scan"
        /\ ~AtEof(fort15, cur)
        /\ ScanBranch(fort15[cur]) \in ScanMarkers
        /\ Len(fort15[cur].vals) = 4
        /\ ~timeFresh)
       => (pc' = "error" /\ err' = "MissingTime")]_vars

\* C7: fort71 and fort72 are stored together, with the same stations, the
\* same station count and observation count, and the column counts 1 and 2.
C7_PairedChannelsAgree ==
    /\ Recorded(data, "fort71") <=> Recorded(data, "fort72")
    /\ Stationed(data, "fort71") <=> Stationed(data, "fort72")
    /\ Recorded(data, "fort71") <=> Stationed(data, "fort71")
    /\ Recorded(data, "fort71") =>
          /\ data.stations["fort71"] = data.stations["fort72"]
          /\ data.recording["fort71"][1] = data.recording["fort72"][1]
          /\ data.recording["fort71"][2] = data.recording["fort72"][2]
          /\ data.recording["fort71"][3] = 1
          /\ data.recording["fort72"][3] = 2

C7_Witness ==
    /\ pc = "done"
    /\ Stationed(data, "fort71")
    /\ Len(data.stations["fort71"]) >= 1
    /\ data.recording["fort72"][2] > 0

\* C10: a scan ends, returning or with an error, and readline returns no
\* line of the document twice.
C10_ScanTerminatesReadingOnce ==
    /\ [](\A i \in DOMAIN reads : reads[i] <= 1)
    /\ [](pc = "scan" => <>(pc \in {"done", "error"}))

C10_Witness ==
    /\ pc = "done"
    /\ Stationed(data, "fort61")
    /\ Len(data.stations["fort61"]) >= 1
    /\ \A i \in DOMAIN reads : reads[i] = 1

\* the keys a marker's decode stores under
KeysOfMarker(b) ==
    CASE b = "UNIT  61" -> {"fort61"}
      [] b = "UNIT  62" -> {"fort62"}
      [] b = "UNIT  71/72" -> {"fort71", "fort72"}
      [] b = "NOUTGE" -> {"fort63"}
      [] b = "UNIT  64" -> {"fort64"}
      [] b = "UNIT  73/74" -> {"fort73", "fort74"}
      [] OTHER -> {}

\* C20: the stores of data hold entries only for channels whose marker is
\* a line of the document of the running or the last scan, whatever earlier
\* scans stored.
C20_OnlyThisDocumentsChannels ==
    \A key \in (DOMAIN data.recording) \cup (DOMAIN data.stations) :
        \E i \in 1..Len(fort15) : key \in KeysOfMarker(ScanBranch(fort15[i]))

C20_Witness ==
    /\ pc = "done"
    /\ calls = 2
    /\ data.time # NoTime
    /\ ~timeFresh
    /\ DOMAIN data.recording = {"fort63"}
    /\ DOMAIN data.stations = {}

\* C11: once a scan has assigned data.time, no later line of the document
\* replaces or changes it.
C11_TimeCreatedOnce ==
    [][(pc = "scan" /\ timeFresh) => data'.time = data.time]_vars

\* C12: a decode at a marker whose output flag or stride is 0 does not fail
\* with an arithmetic error, and the observation count it stores is 0.
C12_ZeroFlagOrStrideGivesZero ==
    [][(/\ pc = "scan"
        /\ ~AtEof(fort15, cur)
        /\ ScanBranch(fort15[cur]) \in ScanMarkers
        /\ Len(fort15[cur].vals) = 4
        /\ (fort15[cur].vals[1] = 0 \/ fort15[cur].vals[4] = 0))
       => /\ err' # "Arith"
          /\ pc' = "scan" =>
                \A key \in KeysOfMarker(ScanBranch(fort15[cur])) :
                    /\ Recorded(data', key)
                    /\ data'.recording[key][2] = 0]_vars

C12_Witness ==
    /\ pc = "done"
    /\ data.time # NoTime
    /\ \E i \in 1..Len(fort15) :
         /\ ScanBranch(fort15[i]) = "UNIT  71/72"
         /\ fort15[i].vals[1] # 0
         /\ fort15[i].vals[4] = 0
    /\ \A t \in data.time : t.dt = 0
    /\ Recorded(data, "fort72") /\ data.recording["fort72"][2] = 0
    /\ Len(data.stations["fort72"]) >= 1

----------------------------------------------------------------------------
(* Claims about the rewriter. *)

\* the channel whose block a pass that starts at a line of branch b re-encodes
BlockKeyOf(b) ==
    CASE b = "NFFR" -> "fort61"
      [] b = "UNIT 62" -> "fort62"
      [] b = "UNIT 71/72" -> "fort71"
      [] OTHER -> ""

\* a pass of the loop that ran to its end
PassDone == pc = "sub" /\ ~AtEof(fort15, cur) /\ pc' = "sub"

\* C1: the count line of a re-encoded block carries the number of decoded
\* stations that pass the geometry filter of the sub-domain's shape, and
\* exactly those stations follow it, in input order.
C1_BlocksAreFiltered ==
    [][(PassDone /\ BlockKeyOf(SubBranch(fort15[cur])) # "") =>
         LET key == BlockKeyOf(SubBranch(fort15[cur]))
             kept == TrimLocationsCircle(shape, fdata'.stations[key])
             new == SubSeq(subfile', Len(subfile) + 2, Len(subfile'))
         IN  /\ Len(new) = 1 + Len(kept)
             /\ new[1].vals = <<Len(kept)>>
             /\ \A i \in 1..Len(kept) : new[i + 1] = StationText(kept[i])]_vars

\* the lines from c on that come before the first line from `from` on that
\* holds kw
Before(doc, c, from, kw) ==
    {i \in c..Len(doc) : \A k \in from..i : ~Find(doc[k], kw)}

\* the lines c..n-1 of a pass that the claim's list of intercepted
\* constructs covers: the RNDAY line, the NBFR line with the lines up to the
\* ANGINN marker, the count and station lines of a re-encoded block
InterceptedAsClaimed(doc, c, n) ==
    LET b == SubBranch(doc[c])
    IN  CASE b = "RNDAY" -> {c}
          [] b = "NBFR" -> Before(doc, c, c + 1, "ANGINN")
          [] b = "NFFR" -> {i \in c..(n - 1) : \E j \in c..(i - 1) : Find(doc[j], "NOUTE")}
          [] b \in {"UNIT 62", "UNIT 71/72"} -> (c + 1)..(n - 1)
          [] OTHER -> {}

\* the same, with the NFFR line and the lines up to the NOUTE marker
InterceptedAmended(doc, c, n) ==
    InterceptedAsClaimed(doc, c, n) \cup
        (IF SubBranch(doc[c]) = "NFFR" THEN Before(doc, c, c, "NOUTE") ELSE {})

\* the pass from line cur to line cur' copied exactly the lines of S, each
\* once, in order and unchanged
PassCopied(S) ==
    LET new == SubSeq(copied', Len(copied) + 1, Len(copied'))
    IN  /\ {new[k][1] : k \in 1..Len(new)} = S
        /\ \A k \in 1..Len(new) : subfile'[new[k][2]] = fort15[new[k][1]]
        /\ \A k, m \in 1..Len(new) :
             k < m => new[k][1] < new[m][1] /\ new[k][2] < new[m][2]

\* C2 as stated: every line outside the RNDAY line, the NBFR..ANGINN run
\* and the count and station lines of a re-encoded block is copied
\* unchanged, once and in order.
C2_OtherLinesCopiedAsClaimed ==
    [][PassDone =>
         PassCopied((cur..(cur' - 1)) \ InterceptedAsClaimed(fort15, cur, cur'))]_vars

\* C2 amended: the NFFR line with the lines up to the NOUTE marker is
\* intercepted too; every other line is copied unchanged, once and in order.
C2_OtherLinesCopied ==
    [][PassDone =>
         /\ cur' > cur
         /\ PassCopied((cur..(cur' - 1)) \ InterceptedAmended(fort15, cur, cur'))]_vars

C2_Witness ==
    /\ pc = "done"
    /\ calls = 1
    /\ subfile # <<>>
    /\ Stationed(fdata, "fort61")
    /\ \E i \in 1..Len(fort15) : \E j \in (i + 2)..Len(fort15) :
         /\ SubBranch(fort15[i]) = "NFFR"
         /\ Find(fort15[j], "NOUTE")
         /\ \A k \in i..(j - 1) : ~Find(fort15[k], "NOUTE")
    /\ \E k \in 1..Len(copied) : copied[k][1] > 4

\* C3: at the NBFR line the rewriter writes the count 0 with the line's own
\* comment, writes none of the lines before the first later ANGINN line,
\* writes that line as it is, and goes on with the line after it.
C3_NbfrSkipsToAnginn ==
    [][(/\ pc = "sub"
        /\ ~AtEof(fort15, cur)
        /\ SubBranch(fort15[cur]) = "NBFR"
        /\ \E j \in (cur + 1)..Len(fort15) : Find(fort15[j], "ANGINN"))
       => LET J == {j \in (cur + 1)..Len(fort15) : Find(fort15[j], "ANGINN")}
              j == CHOOSE j \in J : \A k \in J : j <= k
          IN  /\ pc' = "sub"
              /\ cur' = j + 1
              /\ subfile' = subfile \o <<[fort15[cur] EXCEPT !.vals = <<0>>],
                                         fort15[j]>>]_vars

C3_Witness ==
    /\ pc = "sub"
    /\ Len(subfile) >= 2
    /\ \E c \in 1..Len(fort15) :
         /\ SubBranch(fort15[c]) = "NBFR"
         /\ cur >= c + 3
         /\ Find(fort15[cur - 1], "ANGINN")
         /\ \A k \in (c + 1)..(cur - 2) : ~Find(fort15[k], "ANGINN")
         /\ subfile[Len(subfile)] = fort15[cur - 1]
         /\ subfile[Len(subfile) - 1] = [fort15[c] EXCEPT !.vals = <<0>>]

\* a pass of the loop over a well-formed RNDAY line
RndayPass ==
    /\ pc = "sub"
    /\ ~AtEof(fort15, cur)
    /\ SubBranch(fort15[cur]) = "RNDAY"
    /\ Len(fort15[cur].vals) = 1

\* C14 as stated: the RNDAY line is written with the parsed value times
\* 0.995 and the line's own comment.
C14_RndayTimesFactorAsClaimed ==
    [][RndayPass =>
         /\ Len(subfile') = Len(subfile) + 1
         /\ LET new == subfile'[Len(subfile')]
            IN  /\ Len(new.vals) = 1
                /\ new.vals[1] * Milli = fort15[cur].vals[1] * RndayFactor
                /\ Comment(new) = Comment(fort15[cur])]_vars

\* C14 amended: the value written is the parsed value times 0.995 rounded
\* to three decimals: it is within half a thousandth of the product, and is
\* the product when that is a whole number of thousandths; the line's own
\* comment follows it.
C14_RndayTimesFactorRounded ==
    [][RndayPass =>
         /\ pc' = "sub"
         /\ Len(subfile') = Len(subfile) + 1
         /\ LET new == subfile'[Len(subfile')]
                exact == fort15[cur].vals[1] * RndayFactor
            IN  /\ Len(new.vals) = 1
                /\ 2 * Abs(new.vals[1] * Milli - exact) <= Milli
                /\ exact % Milli = 0 => new.vals[1] * Milli = exact
                /\ Comment(new) = Comment(fort15[cur])
                /\ new.nl]_vars

C14_Witness ==
    /\ pc = "done"
    /\ Len(subfile) >= 4
    /\ fort15[3] = Ln(<<1001>>, {"RNDAY"}, 3)
    /\ subfile[3] = Ln(<<996>>, {"RNDAY"}, 3)

\* C16: a call of subdomain ends, returning or with an error.
C16_SubdomainTerminates == (pc = "sub") ~> (pc \in {"done", "error"})

\* C17: a re-encoded block is written as a count line of its own that
\* carries the number of decoded stations, followed by that many station
\* lines, each a line of its own; of the input lines of the block only the
\* marker line is copied.
C17_BlockWrittenAsLines ==
    [][(PassDone /\ BlockKeyOf(SubBranch(fort15[cur])) # "") =>
         LET key == BlockKeyOf(SubBranch(fort15[cur]))
             st == fdata'.stations[key]
             new == SubSeq(subfile', Len(subfile) + 2, Len(subfile'))
             cp == SubSeq(copied', Len(copied) + 1, Len(copied'))
         IN  /\ Len(new) = 1 + Len(st)
             /\ new[1].vals = <<Len(st)>>
             /\ new[1].nl
             /\ \A i \in 1..Len(st) : new[i + 1] = StationText(st[i])
             /\ Len(cp) = 1
             /\ cp[1][2] = Len(subfile) + 1]_vars

----------------------------------------------------------------------------
(* Claims about the geometry filter. *)

TrimCalled == pc \in {"done", "error"} /\ arg # <<>> /\ arg.op = "trim_locations"

\* the containment predicate of the shape that flag selects: the shrunk
\* circle with its boundary, the ellipse without it
Contains(flag, sh, l) == IF flag = 1 THEN InCircle(sh, l) ELSE EllipseSide(sh, l) < 0

\* C13: for the flags 0 and 1, trim_locations returns the locations of locs
\* that the selected shape contains, each as often as locs has it and in
\* the order of locs.
C13_TrimReturnsContained ==
    (TrimCalled /\ arg.flag \in {0, 1}) =>
        /\ pc = "done"
        /\ ret = {SelectSeq(arg.locs, LAMBDA l : Contains(arg.flag, shape, l))}

Kept(l) == \E s \in ret : \E i \in 1..Len(s) : s[i] = l

\* C15: with a radius that is a positive multiple of 25, the circle filter
\* keeps a location exactly when its squared distance from the centre is at
\* most (r - r/25)^2: the one at distance r - r/25 along the x axis is kept,
\* the one at distance r is not.
C15_CircleShrunkInclusive ==
    (TrimCalled /\ arg.flag = 1 /\ shape.r > 0 /\ shape.r % 25 = 0) =>
        LET in == shape.r - shape.r \div 25 IN
        /\ pc = "done"
        /\ \A i \in 1..Len(arg.locs) :
             Kept(arg.locs[i]) <=>
                 Sq(shape.xb - arg.locs[i].x) + Sq(shape.yb - arg.locs[i].y) <= Sq(in)
        /\ \A i \in 1..Len(arg.locs) :
             /\ arg.locs[i] = Pt(shape.xb + in, shape.yb) => Kept(arg.locs[i])
             /\ arg.locs[i] = Pt(shape.xb + shape.r, shape.yb) => ~Kept(arg.locs[i])

C15_Witness ==
    /\ TrimCalled
    /\ arg.flag = 1
    /\ shape.r = 50
    /\ \E i, j \in 1..Len(arg.locs) :
         /\ arg.locs[i] = Pt(48, 0)
         /\ arg.locs[j] = Pt(50, 0)
    /\ Kept(Pt(48, 0))
    /\ ~Kept(Pt(50, 0))
    /\ Kept(Pt(25, 0))

----------------------------------------------------------------------------
(* Claims about the field mutators. *)

HotCalled == pc \in {"hot", "done", "error"} /\ arg \in HotArgs

\* the document with every line that holds the keyword given the new values
Rewritten(doc, a) ==
    [i \in 1..Len(doc) |->
        IF Find(doc[i], HotKeyword(a)) THEN [doc[i] EXCEPT !.vals = a.vals]
        ELSE doc[i]]

\* C8: at every step of set_ihot and set_write_hot, and where one is
\* interrupted, fort.15 holds its whole original content or its whole
\* rewritten content.
C8_OriginalNeverPartial ==
    HotCalled => fort15 \in {orig, Rewritten(orig, arg)}

C8_Witness ==
    /\ pc = "error"
    /\ err = "Interrupt"
    /\ arg \in HotArgs
    /\ Len(files[TmpName]) > 0
    /\ Len(files[TmpName]) < Len(orig)
    /\ Rewritten(orig, arg) # orig
    /\ fort15 = orig

\* C9 as stated: the result has the lines of the input but for one line.
C9_OnlyOneLineRewritten ==
    (HotCalled /\ pc = "done") =>
        /\ Len(fort15) = Len(orig)
        /\ Cardinality({i \in 1..Len(orig) : fort15[i] # orig[i]}) <= 1

\* C9 amended: the result has as many lines as the input; every line that
\* holds the keyword carries the new values before its own comment, and
\* every other line is the input line at its position.
C9_KeywordLinesRewritten ==
    (HotCalled /\ pc = "done") =>
        /\ Len(fort15) = Len(orig)
        /\ \A i \in 1..Len(orig) :
             IF Find(orig[i], HotKeyword(arg))
             THEN /\ fort15[i].vals = arg.vals
                  /\ Comment(fort15[i]) = Comment(orig[i])
                  /\ fort15[i].nl
             ELSE fort15[i] = orig[i]

C9_Witness ==
    /\ HotCalled
    /\ pc = "done"
    /\ \E i, j \in 1..Len(orig) :
         /\ Find(orig[i], HotKeyword(arg))
         /\ fort15[i] # orig[i]
         /\ ~Find(orig[j], HotKeyword(arg))
         /\ orig[j].bang

\* C18: a scan of a document that holds a line with IHOT, made after calls
\* of set_ihot that ran to their end, ends with data.ihot at the value of
\* the last call.
C18_ScanReportsLastIhot ==
    (/\ pc = "scan"
     /\ AtEof(fort15, cur)
     /\ arg \in IhotArgs
     /\ \E i \in 1..Len(fort15) : Find(fort15[i], "IHOT"))
    => data.ihot = {arg.vals[1]}

C18_Witness ==
    /\ pc = "done"
    /\ calls = 3
    /\ reads # <<>>
    /\ arg \in IhotArgs
    /\ data.ihot = {67}
    /\ \E i \in 1..Len(orig) : Find(orig[i], "IHOT") /\ orig[i].vals = <<17>>
    /\ \A i \in 1..Len(fort15) : Find(fort15[i], "IHOT") => fort15[i].vals = <<67>>

----------------------------------------------------------------------------
(* Claims about the scanner and the rewriter together. *)

\* C19: after a scan and a rewrite of the same document that both ran to
\* their end, every station list the scanner stored for fort61, fort62,
\* fort71 or fort72 is stored by the rewriter too, with the same stations.
C19_SameBlocksDecoded ==
    (pc = "done" /\ calls = 2) =>
        \A key \in {"fort61", "fort62", "fort71", "fort72"} :
            Stationed(data, key) =>
                /\ Stationed(fdata, key)
                /\ fdata.stations[key] = data.stations[key]

====
